---- MODULE Spec2Model ----
(***************************************************************************)
(* Task persistence and mutation core of dailytaskmanager.                 *)
(*                                                                         *)
(* Two managers live in the repository and are modelled side by side:      *)
(*   - the SQL-backed one (src/main_v44_free_worked_tst.py): TaskManager   *)
(*     talks to a SQL Server table through pyodbc, TaskManagerApp holds    *)
(*     the undo History of deletions (deleted_tasks_stack);                *)
(*   - the file-backed one (src/task_manager_v1.1.py): DailyTaskManager    *)
(*     keeps a list of Task objects and an undo and a redo stack.          *)
(* Spec is the SQL-backed manager, SpecFile the file-backed one.           *)
(* SpecAssign adds the "Assign To" menu to the SQL-backed application,     *)
(* SpecEntry follows the entry forms of both managers with empty entries,  *)
(* SpecReminder the reminder thread of the file-backed manager, and        *)
(* SpecView applies the view projections to tables and lists of a pool.    *)
(***************************************************************************)
EXTENDS Integers, Sequences, FiniteSets, TLC

(***************************************************************************)
(* Bounds of the model.                                                    *)
(***************************************************************************)
\* largest task id add_task may issue
MaxId == 2
\* days the clock runs through
MaxDay == 2
\* deepest nesting of server transactions that is followed
MaxTran == 3
\* refresh threads outstanding at once
MaxRefresh == 1
\* deletion records the wide specification lets the History hold
MaxHist == 1

(***************************************************************************)
(* Program constants.                                                      *)
(***************************************************************************)
\* TaskManagerApp.__init__: self.max_undo_stack_size = 10
max_undo_stack_size == 10

(***************************************************************************)
(* Values.                                                                 *)
(***************************************************************************)
\* SQL NULL / Python None of a date column and of a text column
NoDate == 0
NoUser == "NULL"
\* os.getenv('USERNAME') of the running process
CurrentUser == "me"
\* the titles entered in the TaskDialog (non-empty after strip)
Titles == {"pump"}
\* the radio buttons of TaskDialog chosen ("medium" is the third)
Priorities == {"low", "high"}
\* the staff names of the "Assign To" menu
Staff == {"Jay"}

VARIABLES
    db,                  \* rows of table Tasks as this connection sees them
    dbCommitted,         \* rows of table Tasks that are durable
    trancount,           \* the server's count of open transactions (@@TRANCOUNT)
    implicitTran,        \* how the driver realises manual-commit mode (fixed per run)
    tasks,               \* TaskManager.tasks, the in-memory cache
    tree,                \* item ids shown in TaskManagerApp.task_tree
    show_completed,      \* TaskManagerApp.show_completed_var
    deleted_tasks_stack, \* TaskManagerApp.deleted_tasks_stack, the undo History
    undo_btn,            \* state of the Undo button
    refreshThreads,      \* refresh threads started and not yet run
    today,               \* the calendar day of datetime.now()
    last                 \* the handler that ran last, its inputs and its outcome

sqlVars == <<db, dbCommitted, trancount, implicitTran, tasks, tree, show_completed,
             deleted_tasks_stack, undo_btn, refreshThreads, today, last>>

VARIABLES
    file_tasks,          \* DailyTaskManager.tasks, the list of Task objects
    undo_stack,          \* DailyTaskManager.undo_stack, a list of Action objects
    redo_stack,          \* DailyTaskManager.redo_stack
    aliased,             \* position in redo_stack of the clear_completed Action whose
                         \* old_state is the very list object self.tasks (0: none)
    task_file,           \* the task dictionaries written to tasks.json
    done                 \* the handler of DailyTaskManager that ran last

fileVars == <<file_tasks, undo_stack, redo_stack, aliased, task_file, done>>

VARIABLES
    notified             \* the reminder notifications shown so far, in order

VARIABLES
    view_rows,           \* a table Tasks with the columns the filters look at
    view_tasks,          \* a task list with the attributes the filters look at
    view                 \* the projection made last: its filters and its rows

viewVars == <<view_rows, view_tasks, view>>

VARIABLES
    workers,             \* the refresh threads of TaskManagerApp that are running
    tree_thread,         \* the thread that changed the rows of task_tree last
    reminder_pc          \* where the check_reminders thread of DailyTaskManager is

threadVars == <<workers, tree_thread, reminder_pc>>

vars == <<sqlVars, fileVars, notified, viewVars, threadVars>>

(***************************************************************************)
(* Helpers on sets and sequences.                                          *)
(***************************************************************************)
Max(S) == CHOOSE x \in S : \A y \in S : y <= x

Min(S) == CHOOSE x \in S : \A y \in S : x <= y

RECURSIVE SortedSeq(_)
SortedSeq(S) == IF S = {} THEN <<>> ELSE <<Min(S)>> \o SortedSeq(S \ {Min(S)})

Range(s) == {s[i] : i \in 1..Len(s)}

Front(s) == SubSeq(s, 1, Len(s) - 1)

Last(s) == s[Len(s)]

(***************************************************************************)
(* Task rows and task dictionaries of the SQL-backed manager.              *)
(***************************************************************************)
\* a DATETIME column value; NullDT is SQL NULL
NullDT == [day |-> 0, sec |-> 0]

\* the server's conversion of a 'YYYY-MM-DD' string parameter to DATETIME
ParseDate(d) == [day |-> d, sec |-> 0]

\* row.created_date.strftime("%Y-%m-%d") if isinstance(..., datetime) else None
FormatDate(dt) == IF dt = NullDT THEN NoDate ELSE dt.day

\* row.last_modified.strftime("%Y-%m-%d %H:%M:%S") if isinstance(...) else None
FormatDateTime(dt) == IF dt = NullDT THEN NullDT ELSE [day |-> dt.day, sec |-> dt.sec]

\* str.lower() on the priority strings
PriorityLower(p) ==
    CASE p = "Low" -> "low"
      [] p = "Medium" -> "medium"
      [] p = "High" -> "high"
      [] OTHER -> p

\* the dictionary _load_tasks and _find_task_by_id build from a row
RowToDict(r) ==
    [id            |-> r.id,
     title         |-> r.title,
     priority      |-> r.priority,
     assigned_to   |-> r.assigned_to,
     completed     |-> r.completed,
     created_date  |-> FormatDate(r.created_date),
     created_by    |-> r.created_by,
     last_modified |-> FormatDateTime(r.last_modified),
     modified_by   |-> r.modified_by]

\* what _find_task_by_id returns when no row matches
NoTask ==
    [id |-> 0, title |-> "", priority |-> "", assigned_to |-> NoUser,
     completed |-> FALSE, created_date |-> NoDate, created_by |-> NoUser,
     last_modified |-> NullDT, modified_by |-> NoUser]

RowIds(rows) == {r.id : r \in rows}

_find_task_by_id(rows, task_id) ==
    IF task_id \in RowIds(rows)
    THEN RowToDict(CHOOSE r \in rows : r.id = task_id)
    ELSE NoTask

_load_tasks(rows) == {RowToDict(r) : r \in rows}

(***************************************************************************)
(* Transactions.  pyodbc connects with autocommit off (manual-commit       *)
(* mode) and the code mixes Connection.commit() with the Transact-SQL      *)
(* statements BEGIN/COMMIT/ROLLBACK TRANSACTION, which the driver's        *)
(* documentation calls indeterminate.  implicitTran chooses between the    *)
(* two outcomes: TRUE, the server runs with implicit transactions, so      *)
(* BEGIN TRANSACTION nests inside the implicit transaction and             *)
(* Connection.commit() closes one level; FALSE, Connection.commit() ends   *)
(* whatever transaction is open and makes it durable.                      *)
(* A store state is [db, com, tc, cache].                                  *)
(***************************************************************************)
\* executing any statement opens the implicit transaction
Stmt(tc) == IF implicitTran /\ tc = 0 THEN 1 ELSE tc

\* cursor.execute("BEGIN TRANSACTION")
begin_transaction(tc) == Stmt(tc) + 1

\* self.conn.commit()
ConnCommit(st) ==
    IF implicitTran /\ st.tc > 1
    THEN [st EXCEPT !.tc = st.tc - 1]
    ELSE [st EXCEPT !.com = st.db, !.tc = 0]

\* COMMIT/ROLLBACK TRANSACTION with no open transaction raise a pyodbc.Error
TranRaises(tc) == tc = 0

\* cursor.execute("COMMIT TRANSACTION"), when it does not raise
commit_transaction(st) ==
    [st EXCEPT !.tc = st.tc - 1,
               !.com = IF st.tc = 1 THEN st.db ELSE st.com]

\* cursor.execute("ROLLBACK TRANSACTION"), when it does not raise
rollback_transaction(st) ==
    [st EXCEPT !.db = st.com, !.tc = 0]

\* self.tasks = self._load_tasks()
Reload(st) == [st EXCEPT !.cache = _load_tasks(st.db), !.tc = Stmt(st.tc)]

StoreState == [db |-> db, com |-> dbCommitted, tc |-> trancount, cache |-> tasks]

(***************************************************************************)
(* TaskManager: the statements against table Tasks.  `rejected` says       *)
(* whether the store rejects the statement (cursor.execute raises a        *)
(* pyodbc.Error).                                                          *)
(***************************************************************************)
\* add_task: new_id = 1, or max id of the cached tasks + 1
NewId(cache) == IF cache = {} THEN 1 ELSE Max({t.id : t \in cache}) + 1

\* an INSERT that also stamps last_modified and modified_by
AddTaskRowStampsAll(new_id, title, priority, day) ==
    [id            |-> new_id,
     title         |-> title,
     priority      |-> PriorityLower(priority),
     assigned_to   |-> NoUser,
     completed     |-> FALSE,
     created_date  |-> ParseDate(day),
     created_by    |-> CurrentUser,
     last_modified |-> ParseDate(day),
     modified_by   |-> CurrentUser]

\* the row add_task inserts: last_modified and modified_by are not in its
\* column list and stay NULL
AddTaskRow(new_id, title, priority, day) ==
    [id            |-> new_id,
     title         |-> title,
     priority      |-> PriorityLower(priority),
     assigned_to   |-> NoUser,
     completed     |-> FALSE,
     created_date  |-> ParseDate(day),
     created_by    |-> CurrentUser,
     last_modified |-> NullDT,
     modified_by   |-> NoUser]

\* TaskManager.add_task
add_task(st, title, priority, day, rejected) ==
    LET new_id == NewId(st.cache)
        st1    == [st EXCEPT !.tc = Stmt(st.tc)]
    IN  IF new_id \in RowIds(st.db) THEN st1
        ELSE IF rejected THEN st1
        ELSE Reload(ConnCommit(
                 [st1 EXCEPT !.db = st.db \cup
                                    {AddTaskRow(new_id, title, priority, day)}]))

\* the row add_task_direct_id inserts for a task dictionary of the History:
\* created_date, created_by, last_modified and modified_by are stamped anew
DirectIdRow(task, day) ==
    [id            |-> task.id,
     title         |-> task.title,
     priority      |-> PriorityLower(task.priority),
     assigned_to   |-> task.assigned_to,
     completed     |-> task.completed,
     created_date  |-> ParseDate(day),
     created_by    |-> CurrentUser,
     last_modified |-> ParseDate(day),
     modified_by   |-> CurrentUser]

\* TaskManager.add_task_direct_id: a rejected INSERT is caught inside and
\* only shown in a message box
add_task_direct_id(st, task, day, rejected) ==
    IF rejected THEN st
    ELSE Reload(ConnCommit([st EXCEPT !.db = st.db \cup {DirectIdRow(task, day)}]))

\* an UPDATE without its WHERE clause: every row takes the fields
UpdateRowsEveryRow(rows, task_id, fields) ==
    {[k \in DOMAIN r |-> IF k \in DOMAIN fields THEN fields[k] ELSE r[k]] : r \in rows}

\* UPDATE Tasks SET <fields> WHERE id = ?: the columns of `fields` change,
\* every other column of the row stays; no row, no change and no error
UpdateRows(rows, task_id, fields) ==
    {IF r.id = task_id
     THEN [k \in DOMAIN r |-> IF k \in DOMAIN fields THEN fields[k] ELSE r[k]]
     ELSE r : r \in rows}

\* TaskManager.update_task
update_task(st, task_id, fields, rejected) ==
    IF rejected THEN st
    ELSE Reload(ConnCommit(
             [st EXCEPT !.db = UpdateRows(st.db, task_id, fields),
                        !.tc = Stmt(st.tc)]))

\* the fields undo_delete passes to update_task for a task of the History
RestoreFields(task) ==
    [title       |-> task.title,
     priority    |-> task.priority,
     assigned_to |-> task.assigned_to,
     completed   |-> task.completed]

\* TaskManager.batch_delete_tasks: DELETE per id (an id with no row deletes
\* nothing and is a success), then one conn.commit().  rej: the ids whose
\* DELETE the store rejects.  Gives the store state and the two id lists.
RECURSIVE BatchDeleteLoop(_, _, _, _)
BatchDeleteLoop(acc, task_ids, i, rej) ==
    IF i > Len(task_ids) THEN acc
    ELSE LET id == task_ids[i]
         IN  IF id \in rej
             THEN BatchDeleteLoop([acc EXCEPT !.failed = Append(acc.failed, id)],
                                  task_ids, i + 1, rej)
             ELSE BatchDeleteLoop(
                      [acc EXCEPT !.st.db = {r \in acc.st.db : r.id # id},
                                  !.successful = Append(acc.successful, id)],
                      task_ids, i + 1, rej)

batch_delete_tasks(st, task_ids, rej) ==
    LET r == BatchDeleteLoop([st |-> st, successful |-> <<>>, failed |-> <<>>],
                             task_ids, 1, rej)
    IN  [r EXCEPT !.st = ConnCommit(r.st)]

(***************************************************************************)
(* TaskManagerApp: the handlers of the SQL-backed application.             *)
(***************************************************************************)
\* one entry of `last`
Did(op, ids, new_id, title, priority, outcome) ==
    [op |-> op, ids |-> ids, new_id |-> new_id, title |-> title,
     priority |-> priority, outcome |-> outcome]

\* the store state becomes the state st
SetStore(st) ==
    /\ db' = st.db
    /\ dbCommitted' = st.com
    /\ trancount' = st.tc
    /\ tasks' = st.cache

\* refresh_task_list: starts one more refresh thread
refresh_task_list ==
    refreshThreads' = IF refreshThreads < MaxRefresh THEN refreshThreads + 1
                      ELSE refreshThreads

\* the selections get_selected_task_ids can return: the item ids of a
\* non-empty set of rows of the tree, in the order of the tree
Selections == {SortedSeq(S) : S \in (SUBSET tree) \ {{}}}

\* TaskDialog.save: the checks of the stripped title and of the priority
TaskDialogRejects(title, priority) ==
    \/ title = ""
    \/ PriorityLower(priority) \notin {"low", "medium", "high"}

\* TaskManagerApp.add_task: the TaskDialog, then TaskManager.add_task with
\* its result.  A dialog whose entries fail the validation keeps result None
\* and the handler does nothing.
AppAddTask(title, priority, rejected) ==
    IF TaskDialogRejects(title, priority)
    THEN /\ UNCHANGED <<db, dbCommitted, trancount, implicitTran, tasks, tree,
                        show_completed, deleted_tasks_stack, undo_btn,
                        refreshThreads, today>>
         /\ last' = Did("add", <<>>, 0, title, priority, "invalid")
         /\ UNCHANGED <<fileVars, notified, viewVars, threadVars>>
    ELSE LET new_id == NewId(tasks)
             st     == add_task(StoreState, title, priority, today, rejected)
             outcome == IF new_id \in RowIds(db) THEN "conflict"
                        ELSE IF rejected THEN "rejected" ELSE "added"
         IN  /\ new_id <= MaxId
             /\ SetStore(st)
             /\ refresh_task_list
             /\ last' = Did("add", <<>>, new_id, title, priority, outcome)
             /\ UNCHANGED <<implicitTran, tree, show_completed, deleted_tasks_stack,
                            undo_btn, today>>
             /\ UNCHANGED <<fileVars, notified, viewVars, threadVars>>

\* the deletion record with the stack kept to max_undo_stack_size entries
PushDeletionRecord(stack, record) ==
    LET pushed == Append(stack, record)
    IN  IF Len(pushed) > max_undo_stack_size THEN Tail(pushed) ELSE pushed

\* tasks_to_delete: the tasks of the selection that _find_task_by_id resolves
RECURSIVE ResolveTasks(_, _, _)
ResolveTasks(rows, task_ids, i) ==
    IF i > Len(task_ids) THEN <<>>
    ELSE IF task_ids[i] \in RowIds(rows)
         THEN <<_find_task_by_id(rows, task_ids[i])>> \o ResolveTasks(rows, task_ids, i + 1)
         ELSE ResolveTasks(rows, task_ids, i + 1)

\* TaskManagerApp.delete_task after the confirmation dialog.  rej: the ids
\* whose DELETE the store rejects.
AppDeleteTask(task_ids, rej) ==
    LET st0 == [StoreState EXCEPT !.tc = begin_transaction(trancount)]
        tasks_to_delete == ResolveTasks(db, task_ids, 1)
        record == [tasks |-> tasks_to_delete, task_ids |-> task_ids]
        pushed == PushDeletionRecord(deleted_tasks_stack, record)
        bd     == batch_delete_tasks(st0, task_ids, rej)
    IN  /\ UNCHANGED <<implicitTran, tree, show_completed, today>>
        /\ UNCHANGED <<fileVars, notified, viewVars, threadVars>>
        /\ IF tasks_to_delete = <<>>
           THEN \* "No tasks were deleted.": returns with the transaction open
                /\ SetStore(st0)
                /\ UNCHANGED <<deleted_tasks_stack, undo_btn, refreshThreads>>
                /\ last' = Did("delete", task_ids, 0, "", "", "nothing")
           ELSE IF bd.failed # <<>>
           THEN IF TranRaises(bd.st.tc)
                THEN \* rollback_transaction raises, and again in the handler
                     /\ SetStore(bd.st)
                     /\ deleted_tasks_stack' = pushed
                     /\ UNCHANGED <<undo_btn, refreshThreads>>
                     /\ last' = Did("delete", task_ids, 0, "", "", "failed_raised")
                ELSE /\ SetStore(rollback_transaction(bd.st))
                     /\ deleted_tasks_stack' = Front(pushed)
                     /\ UNCHANGED <<undo_btn, refreshThreads>>
                     /\ last' = Did("delete", task_ids, 0, "", "", "failed")
           ELSE IF TranRaises(bd.st.tc)
                THEN \* commit_transaction raises, rollback_transaction too
                     /\ SetStore(bd.st)
                     /\ deleted_tasks_stack' = pushed
                     /\ UNCHANGED <<undo_btn, refreshThreads>>
                     /\ last' = Did("delete", task_ids, 0, "", "", "raised")
                ELSE /\ SetStore(commit_transaction(bd.st))
                     /\ deleted_tasks_stack' = pushed
                     /\ undo_btn' = "normal"
                     /\ refresh_task_list
                     /\ last' = Did("delete", task_ids, 0, "", "", "deleted")

\* the restore loop of undo_delete over the tasks of the deletion record:
\* a task whose id is in the table is updated, any other is inserted again
\* under its id.  rej: the ids whose statement the store rejects.
RECURSIVE RestoreLoop(_, _, _, _, _)
RestoreLoop(st, tasks_to_restore, i, day, rej) ==
    IF i > Len(tasks_to_restore) THEN st
    ELSE LET task == tasks_to_restore[i]
             st1  == [st EXCEPT !.tc = Stmt(st.tc)]
         IN  IF task.id \in RowIds(st1.db)
             THEN RestoreLoop(update_task(st1, task.id, RestoreFields(task),
                                          task.id \in rej),
                              tasks_to_restore, i + 1, day, rej)
             ELSE RestoreLoop(add_task_direct_id(st1, task, day, task.id \in rej),
                              tasks_to_restore, i + 1, day, rej)

\* the ids of the tasks the top deletion record holds
HistoryTopIds ==
    IF deleted_tasks_stack = <<>> THEN {}
    ELSE {t.id : t \in Range(Last(deleted_tasks_stack).tasks)}

\* TaskManagerApp.undo_delete, the command of the Undo button
AppUndoDelete(rej) ==
    /\ undo_btn = "normal"
    /\ UNCHANGED <<implicitTran, tree, show_completed, today>>
    /\ UNCHANGED <<fileVars, notified, viewVars, threadVars>>
    /\ IF deleted_tasks_stack = <<>>
       THEN \* "No tasks to undo."
            /\ UNCHANGED <<db, dbCommitted, trancount, tasks, deleted_tasks_stack,
                           undo_btn, refreshThreads>>
            /\ last' = Did("undo", <<>>, 0, "", "", "nothing")
       ELSE LET deletion_record == Last(deleted_tasks_stack)
                popped == Front(deleted_tasks_stack)
                st0 == [StoreState EXCEPT !.tc = begin_transaction(trancount)]
                st1 == RestoreLoop(st0, deletion_record.tasks, 1, today, rej)
            IN  IF TranRaises(st1.tc)
                THEN \* commit_transaction raises, rollback_transaction too:
                     \* the handler is left before the record is re-added
                     /\ SetStore(st1)
                     /\ deleted_tasks_stack' = popped
                     /\ UNCHANGED <<undo_btn, refreshThreads>>
                     /\ last' = Did("undo", deletion_record.task_ids, 0, "", "",
                                    IF rej = {} THEN "raised" ELSE "rejected_raised")
                ELSE /\ SetStore(commit_transaction(st1))
                     /\ deleted_tasks_stack' = popped
                     /\ refresh_task_list
                     /\ undo_btn' = IF popped = <<>> THEN "disabled" ELSE undo_btn
                     /\ last' = Did("undo", deletion_record.task_ids, 0, "", "",
                                    IF rej = {} THEN "restored" ELSE "rejected")

\* batch_update_completion_status: update_task(task_id, completed=...) per id
RECURSIVE CompletionLoop(_, _, _, _)
CompletionLoop(st, task_ids, i, completed) ==
    IF i > Len(task_ids) THEN st
    ELSE CompletionLoop(update_task(st, task_ids[i], [completed |-> completed], FALSE),
                        task_ids, i + 1, completed)

\* TaskManagerApp.complete_task with the dialogs answered: a selection that
\* is all completed is marked pending, one that is all pending is marked
\* completed, a mixed one is marked as the user chooses
AppCompleteTask(task_ids, choice) ==
    LET found == ResolveTasks(db, task_ids, 1)
        all_completed == \A i \in 1..Len(found) : found[i].completed
        all_pending == \A i \in 1..Len(found) : ~found[i].completed
        completed == IF all_completed THEN FALSE
                     ELSE IF all_pending THEN TRUE ELSE choice
        st == CompletionLoop([StoreState EXCEPT !.tc = Stmt(trancount)],
                             task_ids, 1, completed)
    IN  /\ SetStore(st)
        /\ refresh_task_list
        /\ last' = Did("complete", task_ids, 0, "", "",
                       IF completed THEN "completed" ELSE "pending")
        /\ UNCHANGED <<implicitTran, tree, show_completed, deleted_tasks_stack,
                       undo_btn, today>>
        /\ UNCHANGED <<fileVars, notified, viewVars, threadVars>>

\* assign_task_to: update_task(task_id, assigned_to=staff_name) per id
RECURSIVE AssignLoop(_, _, _, _)
AssignLoop(st, task_ids, i, staff_name) ==
    IF i > Len(task_ids) THEN st
    ELSE AssignLoop(update_task(st, task_ids[i], [assigned_to |-> staff_name], FALSE),
                    task_ids, i + 1, staff_name)

\* TaskManagerApp.assign_task_to, a command of the context menu: the result
\* of update_task is not looked at, the status line reports the assignment
\* and the Undo button is disabled
AppAssignTask(task_ids, staff_name) ==
    LET st == AssignLoop([StoreState EXCEPT !.tc = Stmt(trancount)],
                         task_ids, 1, staff_name)
    IN  /\ task_ids # <<>>
        /\ SetStore(st)
        /\ refresh_task_list
        /\ last' = Did("assign", task_ids, 0, "", "", "assigned")
        /\ undo_btn' = "disabled"
        /\ UNCHANGED <<implicitTran, tree, show_completed, deleted_tasks_stack, today>>
        /\ UNCHANGED <<fileVars, notified, viewVars, threadVars>>

\* the "Show Completed Tasks" check box, whose command is refresh_task_list
ToggleShowCompleted ==
    /\ show_completed' = ~show_completed
    /\ refresh_task_list
    /\ last' = Did("show_completed", <<>>, 0, "", "", "toggled")
    /\ UNCHANGED <<db, dbCommitted, trancount, implicitTran, tasks, tree,
                   deleted_tasks_stack, undo_btn, today>>
    /\ UNCHANGED <<fileVars, notified, viewVars, threadVars>>

\* get_filtered_tasks: SELECT * FROM Tasks WHERE 1=1 [AND completed = 0]
get_filtered_tasks(rows, show) ==
    {RowToDict(r) : r \in {q \in rows : show \/ ~q.completed}}

\* _perform_task_refresh, run by a refresh thread: reloads the cache and
\* fills the tree with the filtered tasks, the task id as item id
PerformTaskRefresh ==
    /\ refreshThreads > 0
    /\ refreshThreads' = refreshThreads - 1
    /\ tasks' = _load_tasks(db)
    /\ trancount' = Stmt(trancount)
    /\ tree' = {t.id : t \in get_filtered_tasks(db, show_completed)}
    /\ last' = Did("refresh", <<>>, 0, "", "", "refreshed")
    /\ UNCHANGED <<db, dbCommitted, implicitTran, show_completed,
                   deleted_tasks_stack, undo_btn, today>>
    /\ UNCHANGED <<fileVars, notified, viewVars, threadVars>>

\* midnight passes: datetime.now() gives the next day
Tick ==
    /\ today < MaxDay
    /\ today' = today + 1
    /\ last' = Did("tick", <<>>, 0, "", "", "day")
    /\ UNCHANGED <<db, dbCommitted, trancount, implicitTran, tasks, tree,
                   show_completed, deleted_tasks_stack, undo_btn, refreshThreads>>
    /\ UNCHANGED <<fileVars, notified, viewVars, threadVars>>

(***************************************************************************)
(* The applications when they start.  SQL-backed: the table is empty,       *)
(* TaskManager.__init__ has loaded it, the first refresh is scheduled.     *)
(* File-backed: there is no tasks.json yet, so load_tasks leaves the list  *)
(* empty; both stacks are empty.                                           *)
(***************************************************************************)
InitManagers ==
    /\ db = {}
    /\ dbCommitted = {}
    /\ implicitTran \in BOOLEAN
    /\ trancount = Stmt(0)
    /\ tasks = {}
    /\ tree = {}
    /\ show_completed = FALSE
    /\ deleted_tasks_stack = <<>>
    /\ undo_btn = "disabled"
    /\ refreshThreads = 1
    /\ today = 1
    /\ last = Did("init", <<>>, 0, "", "", "started")
    /\ file_tasks = <<>>
    /\ undo_stack = <<>>
    /\ redo_stack = <<>>
    /\ aliased = 0
    /\ task_file = <<>>
    /\ done = [op |-> "init", outcome |-> "ok", redo_before |-> 0]
    /\ notified = <<>>

\* no projection made yet
NoView == [op |-> "init", filters |-> <<>>, rows |-> <<>>, outcome |-> "ok"]

Init ==
    /\ InitManagers
    /\ view_rows = {}
    /\ view_tasks = <<>>
    /\ view = NoView
    /\ workers = <<>>
    /\ tree_thread = "none"
    /\ reminder_pc = "loop"

Next ==
    \/ \E title \in Titles, priority \in Priorities, rejected \in BOOLEAN :
           AppAddTask(title, priority, rejected)
    \/ \E task_ids \in Selections : \E rej \in SUBSET Range(task_ids) :
           /\ Len(deleted_tasks_stack) < MaxHist
           /\ trancount < MaxTran
           /\ AppDeleteTask(task_ids, rej)
    \/ \E rej \in SUBSET HistoryTopIds :
           /\ trancount < MaxTran
           /\ AppUndoDelete(rej)
    \/ \E task_ids \in Selections, choice \in BOOLEAN :
           AppCompleteTask(task_ids, choice)
    \/ ToggleShowCompleted
    \/ PerformTaskRefresh

Spec == Init /\ [][Next]_vars

\* the same application with the calendar day advancing
NextClock == Next \/ Tick

SpecClock == Init /\ [][NextClock]_vars

\* the same application with the "Assign To" menu in use
\* and the "Show Completed Tasks" box left as it is
NextAssign ==
    \/ \E title \in Titles, priority \in Priorities, rejected \in BOOLEAN :
           AppAddTask(title, priority, rejected)
    \/ \E task_ids \in Selections : \E rej \in SUBSET Range(task_ids) :
           /\ Len(deleted_tasks_stack) < MaxHist
           /\ trancount < MaxTran
           /\ AppDeleteTask(task_ids, rej)
    \/ \E rej \in SUBSET HistoryTopIds :
           /\ trancount < MaxTran
           /\ AppUndoDelete(rej)
    \/ \E task_ids \in Selections, choice \in BOOLEAN :
           AppCompleteTask(task_ids, choice)
    \/ \E task_ids \in Selections, staff_name \in Staff :
           AppAssignTask(task_ids, staff_name)
    \/ PerformTaskRefresh

SpecAssign == Init /\ [][NextAssign]_vars

(***************************************************************************)
(* Properties of the SQL-backed manager.                                   *)
(***************************************************************************)
\* the ids of the task snapshots the undo History holds
HistoryIds ==
    UNION {{t.id : t \in Range(deleted_tasks_stack[i].tasks)} :
               i \in 1..Len(deleted_tasks_stack)}

\* C1: a delete of a batch in which at least one id has no row leaves the
\* task set unchanged and records no entry on the undo History
C1_DeleteWithMissingIdChangesNothing ==
    [][(/\ last'.op = "delete"
        /\ \E i \in 1..Len(last'.ids) : last'.ids[i] \notin RowIds(db))
       => (db' = db /\ deleted_tasks_stack' = deleted_tasks_stack)]_vars

\* C2: when the store rejects the deletion of an id of the batch, no task
\* of the batch is missing from the store afterwards and the History holds
\* no delete record for the call
C2_RejectedDeleteIsAllOrNothing ==
    [][(/\ last'.op = "delete"
        /\ last'.outcome \in {"failed", "failed_raised"})
       => (/\ \A id \in Range(last'.ids) : id \in RowIds(db) => id \in RowIds(db')
           /\ deleted_tasks_stack' = deleted_tasks_stack)]_vars

\* C4: a task created by add never carries the id of a deleted task
\* snapshot that the undo History still holds
C4_AddNeverReusesHistoryId ==
    (last.op = "add" /\ last.outcome = "added") => last.new_id \notin HistoryIds

\* C6: an undo in which the store rejects the restore of a task leaves the
\* History with the entries it held before the undo
C6_FailedUndoKeepsHistory ==
    [][(/\ last'.op = "undo"
        /\ last'.outcome \in {"rejected", "rejected_raised"})
       => deleted_tasks_stack' = deleted_tasks_stack]_vars

\* the task _find_task_by_id returns for the id of the add that ran last
AddedTask == _find_task_by_id(db, last.new_id)

\* the fields handed to add are the fields found under the new id
AddedFieldsAsSupplied ==
    /\ AddedTask.id = last.new_id
    /\ AddedTask.title = last.title
    /\ AddedTask.priority = last.priority
    /\ AddedTask.completed = FALSE

\* C10: after add, find_by_id(new id) returns the supplied fields, with
\* created_date and created_by populated and with last_modified and
\* modified_by still absent (add does not stamp them)
C10_AddThenFindStampsCreation ==
    (last.op = "add" /\ last.outcome = "added")
    => /\ AddedFieldsAsSupplied
       /\ AddedTask.created_date = today
       /\ AddedTask.created_by = CurrentUser
       /\ AddedTask.last_modified = NullDT
       /\ AddedTask.modified_by = NoUser

\* C10 as stated: after add, find_by_id(new id) returns the supplied fields
\* and all four provenance fields are populated
C10_AddThenFindAllProvenance ==
    (last.op = "add" /\ last.outcome = "added")
    => /\ AddedFieldsAsSupplied
       /\ AddedTask.created_date # NoDate
       /\ AddedTask.created_by # NoUser
       /\ AddedTask.last_modified # NullDT
       /\ AddedTask.modified_by # NoUser

\* C10 witness: a second task was added with priority high and is found
C10_AddedAndFound ==
    /\ last.op = "add"
    /\ last.outcome = "added"
    /\ last.new_id = 2
    /\ last.priority = "high"
    /\ AddedTask.id = 2

(***************************************************************************)
(* The file-backed manager (src/task_manager_v1.1.py).  A Task is modelled *)
(* with its title, its priority, its completed flag and its reminders;     *)
(* description, due_date, category and notes are strings that every        *)
(* operation copies as they are.  Indices are Python's, counted from 0.    *)
(***************************************************************************)
\* tasks the list is let grow to by add, duplicate and import
MaxTasks == 2
\* Actions the wide specification lets the undo stack hold
MaxActions == 2
\* Actions the deep specification lets the undo stack hold
MaxDeep == 11

\* Python's None
None == "None"
\* the stripped text of the title entry; "" is an empty entry
TitleEntries == {"", "a"}
\* the gray text an untouched title entry shows
TitlePlaceholder == "Enter task title here"
\* the read-only priority combo box: "" until a value is picked, and again
\* after clear_fields
PriorityCombo == {"", "High"}

\* datetime.isoformat() and datetime.fromisoformat()
IsoFormat(dt) == [isoformat |-> <<dt.day, dt.sec>>]

FromIsoFormat(str) == [day |-> str.isoformat[1], sec |-> str.isoformat[2]]

\* Task.__init__
Task(title, priority, completed, reminders) ==
    [title |-> title, priority |-> priority, completed |-> completed,
     reminders |-> reminders]

\* Task.to_dict: the reminders are stored as ISO format strings
to_dict(task) ==
    [title     |-> task.title,
     priority  |-> task.priority,
     completed |-> task.completed,
     reminders |-> [i \in 1..Len(task.reminders) |-> IsoFormat(task.reminders[i])]]

\* Task.from_dict: the ISO format strings are parsed back to datetimes
from_dict(data) ==
    Task(data.title, data.priority, data.completed,
         [i \in 1..Len(data.reminders) |-> FromIsoFormat(data.reminders[i])])

\* Action.__init__
Action(action_type, task_index, old_state, new_state) ==
    [action_type |-> action_type, task_index |-> task_index,
     old_state |-> old_state, new_state |-> new_state]

\* the task dictionaries of the file the user picks in import_tasks
ImportFile == <<to_dict(Task("i", "High", TRUE, <<>>))>>
\* a file whose one task dictionary has "title": ""
ImportFileNoTitle == <<to_dict(Task("", "High", FALSE, <<>>))>>

\* the state of the manager as one record
Dtm ==
    [tasks |-> file_tasks, undo |-> undo_stack, redo |-> redo_stack,
     alias |-> aliased, file |-> task_file]

SetDtm(m) ==
    /\ file_tasks' = m.tasks
    /\ undo_stack' = m.undo
    /\ redo_stack' = m.redo
    /\ aliased' = m.alias
    /\ task_file' = m.file

\* del s[index]
DelAt(s, index) == SubSeq(s, 1, index) \o SubSeq(s, index + 2, Len(s))

\* s.insert(index, x): an index past the end inserts at the end
InsertAt(s, index, x) ==
    LET at == Min({index, Len(s)})
    IN  SubSeq(s, 1, at) \o <<x>> \o SubSeq(s, at + 1, Len(s))

\* s[index] = x
SetAt(s, index, x) == [s EXCEPT ![index + 1] = x]

\* a change of the list object self.tasks in place (append, extend, del,
\* insert, item assignment): an Action whose old_state is that very list
\* object changes with it
InPlace(m, new_tasks) ==
    [m EXCEPT !.tasks = new_tasks,
              !.redo = IF m.alias = 0 THEN m.redo
                       ELSE [m.redo EXCEPT ![m.alias].old_state = new_tasks]]

\* self.tasks = <a new list>
Rebind(m, new_tasks) == [m EXCEPT !.tasks = new_tasks, !.alias = 0]

\* a record_action that keeps the redo stack
record_action_keeps_redo(m, action) ==
    [m EXCEPT !.undo = Append(m.undo, action)]

\* DailyTaskManager.record_action
record_action(m, action) ==
    [m EXCEPT !.undo = Append(m.undo, action), !.redo = <<>>, !.alias = 0]

\* DailyTaskManager.save_tasks
save_tasks(m) ==
    [m EXCEPT !.file = [i \in 1..Len(m.tasks) |-> to_dict(m.tasks[i])]]

\* [task for task in tasks if not task.completed]
RECURSIVE NotCompleted(_)
NotCompleted(s) ==
    IF s = <<>> THEN <<>>
    ELSE IF Head(s).completed THEN NotCompleted(Tail(s))
         ELSE <<Head(s)>> \o NotCompleted(Tail(s))

\* one entry of `done`
Ran(op, outcome) ==
    [op |-> op, outcome |-> outcome, redo_before |-> Len(redo_stack)]

\* an add_task that checks the title only after the Action is recorded
DtmAddTaskChecksLate(title, priority, completed) ==
    LET task   == Task(title, priority, completed, <<>>)
        m1     == InPlace(Dtm, Append(file_tasks, task))
        action == Action("add", Len(m1.tasks) - 1, None, to_dict(task))
        m2     == record_action(m1, action)
    IN  /\ UNCHANGED <<sqlVars, notified, viewVars, threadVars>>
        /\ IF title = "" \/ title = TitlePlaceholder
           THEN /\ SetDtm(m2)
                /\ done' = Ran("add", "error")
           ELSE /\ SetDtm(save_tasks(m2))
                /\ done' = Ran("add", "ok")

\* DailyTaskManager.add_task
DtmAddTask(title, priority, completed) ==
    /\ UNCHANGED <<sqlVars, notified, viewVars, threadVars>>
    /\ IF title = "" \/ title = TitlePlaceholder
       THEN \* "Title is required!"
            /\ UNCHANGED <<file_tasks, undo_stack, redo_stack, aliased, task_file>>
            /\ done' = Ran("add", "error")
       ELSE LET task   == Task(title, priority, completed, <<>>)
                m1     == InPlace(Dtm, Append(file_tasks, task))
                action == Action("add", Len(m1.tasks) - 1, None, to_dict(task))
            IN  /\ SetDtm(save_tasks(record_action(m1, action)))
                /\ done' = Ran("add", "ok")

\* DailyTaskManager.edit_task with the one selected row `index`: the
\* reminders of the task are kept
DtmEditTask(index, title, priority, completed) ==
    /\ UNCHANGED <<sqlVars, notified, viewVars, threadVars>>
    /\ IF title = "" \/ title = TitlePlaceholder
       THEN /\ UNCHANGED <<file_tasks, undo_stack, redo_stack, aliased, task_file>>
            /\ done' = Ran("edit", "error")
       ELSE LET old_state == to_dict(file_tasks[index + 1])
                task      == Task(title, priority, completed,
                                  file_tasks[index + 1].reminders)
                m1        == InPlace(Dtm, SetAt(file_tasks, index, task))
                action    == Action("edit", index, old_state, to_dict(task))
            IN  /\ SetDtm(save_tasks(record_action(m1, action)))
                /\ done' = Ran("edit", "ok")

\* sorted(..., reverse=True)
RECURSIVE SortedReverse(_)
SortedReverse(S) ==
    IF S = {} THEN <<>> ELSE <<Max(S)>> \o SortedReverse(S \ {Max(S)})

\* the loop of delete_task over the selected indices, largest first: one
\* Action is recorded per deleted task
RECURSIVE DeleteLoop(_, _, _)
DeleteLoop(m, selected_indices, i) ==
    IF i > Len(selected_indices) THEN m
    ELSE LET index  == selected_indices[i]
             action == Action("delete", index, to_dict(m.tasks[index + 1]), None)
             m1     == record_action(m, action)
         IN  DeleteLoop(InPlace(m1, DelAt(m1.tasks, index)), selected_indices, i + 1)

\* DailyTaskManager.delete_task with the selected rows, confirmed
DtmDeleteTask(selection) ==
    /\ UNCHANGED <<sqlVars, notified, viewVars, threadVars>>
    /\ SetDtm(save_tasks(DeleteLoop(Dtm, SortedReverse(selection), 1)))
    /\ done' = Ran("delete", "ok")

\* DailyTaskManager.clear_completed_tasks, confirmed: the Action holds a
\* deep copy of the task list
DtmClearCompleted ==
    LET action == Action("clear_completed", None, file_tasks, None)
        m1     == record_action(Dtm, action)
    IN  /\ UNCHANGED <<sqlVars, notified, viewVars, threadVars>>
        /\ SetDtm(save_tasks(Rebind(m1, NotCompleted(m1.tasks))))
        /\ done' = Ran("clear_completed", "ok")

\* DailyTaskManager.duplicate_task with the first selected row `index`
DtmDuplicateTask(index) ==
    LET task     == file_tasks[index + 1]
        new_task == Task(task.title \o " (copy)", task.priority, task.completed,
                         task.reminders)
        m1       == InPlace(Dtm, Append(file_tasks, new_task))
        action   == Action("add", Len(m1.tasks) - 1, None, to_dict(new_task))
    IN  /\ UNCHANGED <<sqlVars, notified, viewVars, threadVars>>
        /\ SetDtm(save_tasks(record_action(m1, action)))
        /\ done' = Ran("duplicate", "ok")

\* DailyTaskManager.import_tasks with a file picked: the tasks are appended
\* and saved, no Action is recorded
DtmImportTasks(file) ==
    LET imported_tasks == [i \in 1..Len(file) |-> from_dict(file[i])]
    IN  /\ UNCHANGED <<sqlVars, notified, viewVars, threadVars>>
        /\ SetDtm(save_tasks(InPlace(Dtm, file_tasks \o imported_tasks)))
        /\ done' = Ran("import", "ok")

\* DailyTaskManager.undo with a non-empty undo stack: the Action is moved to
\* the redo stack first, then its inverse is applied to the list.  An
\* IndexError of the list operation leaves the handler before save_tasks.
\* Undoing clear_completed makes self.tasks the list object of old_state.
undo(m) ==
    LET action == Last(m.undo)
        m1     == [m EXCEPT !.undo = Front(m.undo), !.redo = Append(m.redo, action)]
        index  == action.task_index
        raised == [m |-> m1, outcome |-> "IndexError"]
    IN  CASE action.action_type = "add" ->
                 IF index < Len(m1.tasks)
                 THEN [m |-> save_tasks(InPlace(m1, DelAt(m1.tasks, index))),
                       outcome |-> "ok"]
                 ELSE raised
          [] action.action_type = "edit" ->
                 IF index < Len(m1.tasks)
                 THEN [m |-> save_tasks(InPlace(m1, SetAt(m1.tasks, index,
                                                         from_dict(action.old_state)))),
                       outcome |-> "ok"]
                 ELSE raised
          [] action.action_type = "delete" ->
                 [m |-> save_tasks(InPlace(m1, InsertAt(m1.tasks, index,
                                                        from_dict(action.old_state)))),
                  outcome |-> "ok"]
          [] action.action_type = "clear_completed" ->
                 [m |-> save_tasks([m1 EXCEPT !.tasks = action.old_state,
                                              !.alias = Len(m1.redo)]),
                  outcome |-> "ok"]

\* DailyTaskManager.redo with a non-empty redo stack: the Action is moved
\* back to the undo stack first, then it is applied again; an add is
\* appended to the list, clear_completed filters the list as it is now
redo(m) ==
    LET action == Last(m.redo)
        m1     == [m EXCEPT !.redo = Front(m.redo), !.undo = Append(m.undo, action),
                            !.alias = IF m.alias = Len(m.redo) THEN 0 ELSE m.alias]
        index  == action.task_index
        raised == [m |-> m1, outcome |-> "IndexError"]
    IN  CASE action.action_type = "add" ->
                 [m |-> save_tasks(InPlace(m1, Append(m1.tasks,
                                                      from_dict(action.new_state)))),
                  outcome |-> "ok"]
          [] action.action_type = "edit" ->
                 IF index < Len(m1.tasks)
                 THEN [m |-> save_tasks(InPlace(m1, SetAt(m1.tasks, index,
                                                         from_dict(action.new_state)))),
                       outcome |-> "ok"]
                 ELSE raised
          [] action.action_type = "delete" ->
                 IF index < Len(m1.tasks)
                 THEN [m |-> save_tasks(InPlace(m1, DelAt(m1.tasks, index))),
                       outcome |-> "ok"]
                 ELSE raised
          [] action.action_type = "clear_completed" ->
                 [m |-> save_tasks(Rebind(m1, NotCompleted(m1.tasks))),
                  outcome |-> "ok"]

\* the Undo command
DtmUndo ==
    /\ UNCHANGED <<sqlVars, notified, viewVars, threadVars>>
    /\ IF undo_stack # <<>>
       THEN /\ SetDtm(undo(Dtm).m)
            /\ done' = Ran("undo", undo(Dtm).outcome)
       ELSE \* "Nothing to undo."
            /\ UNCHANGED <<file_tasks, undo_stack, redo_stack, aliased, task_file>>
            /\ done' = Ran("undo", "nothing")

\* the Redo command
DtmRedo ==
    /\ UNCHANGED <<sqlVars, notified, viewVars, threadVars>>
    /\ IF redo_stack # <<>>
       THEN /\ SetDtm(redo(Dtm).m)
            /\ done' = Ran("redo", redo(Dtm).outcome)
       ELSE \* "Nothing to redo."
            /\ UNCHANGED <<file_tasks, undo_stack, redo_stack, aliased, task_file>>
            /\ done' = Ran("redo", "nothing")

\* the titles of tasks that are not copies: a copy of a copy is not followed
Originals == (TitleEntries \ {""}) \cup {ImportFile[i].title : i \in 1..Len(ImportFile)}

\* the rows of the task tree, as indices of the list
Rows == 0..(Len(file_tasks) - 1)

NextFile ==
    \/ \E title \in TitleEntries, completed \in BOOLEAN :
           /\ Len(file_tasks) < MaxTasks
           /\ Len(undo_stack) < MaxActions
           /\ DtmAddTask(title, "High", completed)
    \/ \E index \in Rows, title \in TitleEntries, completed \in BOOLEAN :
           /\ Len(undo_stack) < MaxActions
           /\ DtmEditTask(index, title, "High", completed)
    \/ \E selection \in (SUBSET Rows) \ {{}} :
           /\ Len(undo_stack) + Cardinality(selection) <= MaxActions
           /\ DtmDeleteTask(selection)
    \/ /\ Len(undo_stack) < MaxActions
       /\ DtmClearCompleted
    \/ \E index \in Rows :
           /\ Len(file_tasks) < MaxTasks
           /\ Len(undo_stack) < MaxActions
           /\ file_tasks[index + 1].title \in Originals
           /\ DtmDuplicateTask(index)
    \/ /\ Len(file_tasks) + Len(ImportFile) <= MaxTasks
       /\ DtmImportTasks(ImportFile)
    \/ /\ undo_stack # <<>> => Len(undo(Dtm).m.tasks) <= MaxTasks
       /\ DtmUndo
    \/ /\ redo_stack # <<>> => Len(redo(Dtm).m.tasks) <= MaxTasks
       /\ DtmRedo

\* the file-backed manager does not use the SQL connection
InitFile == Init /\ implicitTran

SpecFile == InitFile /\ [][NextFile]_vars

\* the file-backed manager with add, undo and redo only, followed deep
NextDeep ==
    \/ \E completed \in BOOLEAN :
           /\ Len(undo_stack) < MaxDeep
           /\ DtmAddTask("a", "High", completed)
    \/ DtmUndo
    \/ DtmRedo

SpecFileDeep == InitFile /\ [][NextDeep]_vars

\* the entry forms of both managers with every entry the widgets can hold:
\* the TaskDialog of the SQL-backed application with an empty title, the
\* fields of the file-backed manager with an empty or untouched title and
\* an unpicked priority, and the import of a file with an untitled task
NextEntry ==
    \/ \E title \in Titles \cup {""}, priority \in Priorities :
           AppAddTask(title, priority, FALSE)
    \/ PerformTaskRefresh
    \/ \E title \in TitleEntries \cup {TitlePlaceholder}, priority \in PriorityCombo :
           /\ Len(file_tasks) < MaxTasks
           /\ Len(undo_stack) < MaxActions
           /\ DtmAddTask(title, priority, FALSE)
    \/ \E index \in Rows, title \in TitleEntries, priority \in PriorityCombo :
           /\ Len(undo_stack) < MaxActions
           /\ DtmEditTask(index, title, priority, FALSE)
    \/ \E file \in {ImportFile, ImportFileNoTitle} :
           /\ Len(file_tasks) + Len(file) <= MaxTasks
           /\ DtmImportTasks(file)
    \/ /\ undo_stack # <<>> => Len(undo(Dtm).m.tasks) <= MaxTasks
       /\ DtmUndo
    \/ /\ redo_stack # <<>> => Len(redo(Dtm).m.tasks) <= MaxTasks
       /\ DtmRedo

SpecEntry == InitFile /\ [][NextEntry]_vars

(***************************************************************************)
(* Properties of the file-backed manager.                                  *)
(***************************************************************************)
\* the tasks of a list as a set, with the length of the list
TaskSet(s) == <<Range(s), Len(s)>>

\* C3: a delete of two tasks followed by a single undo restores both: the
\* task set is the one before the deletion
C3_UndoRestoresDeletedBatch ==
    Len(file_tasks) >= 2
    => LET deleted == save_tasks(DeleteLoop(Dtm, SortedReverse({0, 1}), 1))
           undone  == undo(deleted).m
       IN  TaskSet(undone.tasks) = TaskSet(file_tasks)

\* C5: the undo History never holds more than max_depth (10) entries, in
\* the SQL-backed manager (deleted_tasks_stack) and in the file-backed one
\* (undo_stack)
C5_HistoryNeverExceedsMaxDepth ==
    /\ Len(deleted_tasks_stack) <= max_undo_stack_size
    /\ Len(undo_stack) <= max_undo_stack_size

\* the handlers that record an Action
RecordingOps == {"add", "edit", "delete", "duplicate", "clear_completed"}

\* the Action on top of the undo stack describes the step from the list
\* `before` to the list `after` that the handler `op` made
TopIsPerformed(op, top, before, after) ==
    CASE op \in {"add", "duplicate"} ->
             /\ after # <<>>
             /\ Front(after) = before
             /\ top = Action("add", Len(after) - 1, None, to_dict(Last(after)))
      [] op = "edit" ->
             /\ top.action_type = "edit"
             /\ top.task_index \in 0..(Len(before) - 1)
             /\ top.old_state = to_dict(before[top.task_index + 1])
             /\ top.new_state = to_dict(after[top.task_index + 1])
             /\ after = SetAt(before, top.task_index, after[top.task_index + 1])
      [] op = "delete" ->
             /\ top.action_type = "delete"
             /\ top.task_index \in 0..(Len(before) - 1)
             /\ top.old_state = to_dict(before[top.task_index + 1])
             /\ top.new_state = None
      [] op = "clear_completed" ->
             /\ top = Action("clear_completed", None, before, None)
             /\ after = NotCompleted(before)

\* C7: after every successful add, edit, delete, duplicate or
\* clear-completed the redo stack is empty, the entries the undo stack held
\* are still below, and the top of the undo stack is the action just performed
C7_RecordPushesAndClearsRedo ==
    [][(done'.op \in RecordingOps /\ done'.outcome = "ok")
       => /\ redo_stack' = <<>>
          /\ Len(undo_stack') > Len(undo_stack)
          /\ SubSeq(undo_stack', 1, Len(undo_stack)) = undo_stack
          /\ TopIsPerformed(done'.op, Last(undo_stack'), file_tasks, file_tasks')]_vars

\* C7 witness: an edit was recorded while the redo stack held an Action,
\* and the redo stack is empty now
C7_EditRecordedOverRedo ==
    /\ done.op = "edit"
    /\ done.outcome = "ok"
    /\ done.redo_before > 0
    /\ redo_stack = <<>>
    /\ Last(undo_stack).action_type = "edit"

\* the list `after` is the list `before` with the inverse of the Action applied
InverseApplied(action, before, after) ==
    CASE action.action_type = "add" ->
             /\ action.task_index < Len(before)
             /\ after = DelAt(before, action.task_index)
      [] action.action_type = "edit" ->
             /\ action.task_index < Len(before)
             /\ after = SetAt(before, action.task_index, from_dict(action.old_state))
      [] action.action_type = "delete" ->
             after = InsertAt(before, action.task_index, from_dict(action.old_state))
      [] action.action_type = "clear_completed" ->
             after = action.old_state

\* the list `after` is the list `before` with the Action applied again
Reapplied(action, before, after) ==
    CASE action.action_type = "add" ->
             after = Append(before, from_dict(action.new_state))
      [] action.action_type = "edit" ->
             /\ action.task_index < Len(before)
             /\ after = SetAt(before, action.task_index, from_dict(action.new_state))
      [] action.action_type = "delete" ->
             /\ action.task_index < Len(before)
             /\ after = DelAt(before, action.task_index)
      [] action.action_type = "clear_completed" ->
             after = NotCompleted(before)

\* C8: undo removes the top entry of the undo stack, applies its inverse to
\* the task list and pushes that entry on the redo stack; redo is the mirror;
\* no other entry of either stack changes
C8_UndoRedoMoveTopEntryOnly ==
    [][/\ (done'.op = "undo" /\ done'.outcome # "nothing")
          => /\ undo_stack' = Front(undo_stack)
             /\ redo_stack' = Append(redo_stack, Last(undo_stack))
             /\ InverseApplied(Last(undo_stack), file_tasks, file_tasks')
       /\ (done'.op = "redo" /\ done'.outcome # "nothing")
          => /\ redo_stack' = Front(redo_stack)
             /\ undo_stack' = Append(undo_stack, Last(redo_stack))
             /\ Reapplied(Last(redo_stack), file_tasks, file_tasks')]_vars

\* C9: with an add on top of the undo stack, undo(); redo(); undo() leaves
\* the task set as the first undo() alone leaves it
C9_UndoRedoUndoOfAdd ==
    (undo_stack # <<>> /\ Last(undo_stack).action_type = "add")
    => LET first == undo(Dtm).m
           third == undo(redo(first).m).m
       IN  TaskSet(third.tasks) = TaskSet(first.tasks)

(***************************************************************************)
(* The reminders of the file-backed manager.  A reminder is a datetime of  *)
(* a day at 00:00; the clock is the calendar day `today`.                  *)
(***************************************************************************)
\* notifications the reminder thread is followed for
MaxNotified == 2

\* datetime.now()
Now == [day |-> today, sec |-> 0]

\* a comparison reminder < now
NotAfterStrict(reminder, now) ==
    reminder.day < now.day \/ (reminder.day = now.day /\ reminder.sec < now.sec)

\* reminder <= now
NotAfter(reminder, now) ==
    reminder.day < now.day \/ (reminder.day = now.day /\ reminder.sec <= now.sec)

\* DailyTaskManager.add_reminder with its set_reminder thread, the dialog
\* answered with a well-formed time: the reminder is appended to the list
\* of the selected task and the tasks are saved; no Action is recorded
DtmAddReminder(index, reminder_time) ==
    /\ UNCHANGED <<sqlVars, notified, viewVars, threadVars>>
    /\ IF NotAfter(reminder_time, Now)
       THEN \* "Reminder time must be in the future."
            /\ UNCHANGED <<file_tasks, undo_stack, redo_stack, aliased, task_file>>
            /\ done' = Ran("add_reminder", "error")
       ELSE LET task == file_tasks[index + 1]
                reminded == [task EXCEPT !.reminders = Append(task.reminders, reminder_time)]
            IN  /\ SetDtm(save_tasks(InPlace(Dtm, SetAt(file_tasks, index, reminded))))
                /\ done' = Ran("add_reminder", "ok")

\* the reminders of a list that are due
RECURSIVE Due(_, _)
Due(reminders, now) ==
    IF reminders = <<>> THEN <<>>
    ELSE IF NotAfter(Head(reminders), now)
         THEN <<Head(reminders)>> \o Due(Tail(reminders), now)
         ELSE Due(Tail(reminders), now)

RECURSIVE NotDue(_, _)
NotDue(reminders, now) ==
    IF reminders = <<>> THEN <<>>
    ELSE IF NotAfter(Head(reminders), now)
         THEN NotDue(Tail(reminders), now)
         ELSE <<Head(reminders)>> \o NotDue(Tail(reminders), now)

\* the notifications of one pass over the tasks, in the order shown
RECURSIVE Notifications(_, _, _)
Notifications(task_list, i, now) ==
    IF i > Len(task_list) THEN <<>>
    ELSE LET due == Due(task_list[i].reminders, now)
         IN  [k \in 1..Len(due) |-> [title |-> task_list[i].title, reminder |-> due[k]]]
             \o Notifications(task_list, i + 1, now)

\* one pass of the loop of DailyTaskManager.check_reminders, the reminder
\* thread: every reminder that is due is shown, removed from the list of
\* its task, and the tasks are saved
CheckReminders ==
    LET now   == Now
        shown == Notifications(file_tasks, 1, now)
        after == [i \in 1..Len(file_tasks) |->
                     [file_tasks[i] EXCEPT !.reminders = NotDue(file_tasks[i].reminders, now)]]
    IN  /\ shown # <<>>
        /\ notified' = notified \o shown
        /\ SetDtm(save_tasks(InPlace(Dtm, after)))
        /\ done' = Ran("check_reminders", "shown")
        /\ UNCHANGED <<sqlVars, viewVars, threadVars>>

\* the reminders a state of an Action holds
StateReminders(action) ==
    CASE action.action_type = "add" -> Range(action.new_state.reminders)
      [] action.action_type = "edit" ->
             Range(action.old_state.reminders) \cup Range(action.new_state.reminders)
      [] action.action_type = "delete" -> Range(action.old_state.reminders)
      [] OTHER -> {}

\* no task and no Action holds a reminder and none was shown
NoReminderYet ==
    /\ notified = <<>>
    /\ \A i \in 1..Len(file_tasks) : file_tasks[i].reminders = <<>>
    /\ \A i \in 1..Len(undo_stack) : StateReminders(undo_stack[i]) = {}
    /\ \A i \in 1..Len(redo_stack) : StateReminders(redo_stack[i]) = {}

\* the file-backed manager with one reminder set, the reminder thread and
\* the clock
NextReminder ==
    \/ /\ Len(file_tasks) < MaxTasks
       /\ Len(undo_stack) < MaxActions
       /\ DtmAddTask("a", "High", FALSE)
    \/ \E index \in Rows, completed \in BOOLEAN :
           /\ Len(undo_stack) < MaxActions
           /\ DtmEditTask(index, "a", "High", completed)
    \/ \E selection \in (SUBSET Rows) \ {{}} :
           /\ Len(undo_stack) + Cardinality(selection) <= MaxActions
           /\ DtmDeleteTask(selection)
    \/ \E index \in Rows, day \in 1..MaxDay :
           /\ NoReminderYet
           /\ DtmAddReminder(index, [day |-> day, sec |-> 0])
    \/ /\ Len(notified) < MaxNotified
       /\ CheckReminders
    \/ Tick
    \/ /\ undo_stack # <<>> => Len(undo(Dtm).m.tasks) <= MaxTasks
       /\ DtmUndo
    \/ /\ redo_stack # <<>> => Len(redo(Dtm).m.tasks) <= MaxTasks
       /\ DtmRedo

SpecReminder == InitFile /\ [][NextReminder]_vars

\* C18: no reminder is shown twice, whatever add, edit, delete, undo and
\* redo follow its first notification
C18_ReminderFiresOnce ==
    \A i, j \in 1..Len(notified) : i # j => notified[i] # notified[j]

(***************************************************************************)
(* The view projections of both managers as functions of a task set and    *)
(* of the filter widgets.  The strings the filters look into are sequences *)
(* of characters, so that lower() and the substring test are computed.     *)
(***************************************************************************)
\* str.lower() on the characters used
LowerChar(c) ==
    CASE c = "G" -> "g"
      [] c = "J" -> "j"
      [] c = "P" -> "p"
      [] c = "V" -> "v"
      [] OTHER -> c

Lower(str) == [i \in 1..Len(str) |-> LowerChar(str[i])]

\* Python's `sub in str`
In(sub, str) ==
    \E i \in 0..(Len(str) - Len(sub)) : SubSeq(str, i + 1, i + Len(sub)) = sub

\* Python's None where a string may stand
NoString == <<"None">>
\* the value "All" of a filter combo box
All == <<"A", "l", "l">>
general == <<"g", "e", "n", "e", "r", "a", "l">>
other == <<"o", "t", "h", "e", "r">>
Jay == <<"J", "a", "y">>
Jude == <<"J", "u", "d", "e">>
Pump == <<"P", "u", "m", "p">>
Valve == <<"V", "a", "l", "v", "e">>

\* a row of table Tasks; description and assigned_to are NULL when the
\* TaskDialog left them empty
ViewRow(id, title, category, main_staff, assigned_to, completed) ==
    [id |-> id, title |-> title, description |-> NoString,
     applied_vessel |-> <<"M", "V">>, category |-> category,
     main_staff |-> main_staff, assigned_to |-> assigned_to,
     completed |-> completed]

\* the rows the tables of the projection are made of
RowPool ==
    {ViewRow(1, Pump, general, Jay, NoString, FALSE),
     ViewRow(2, Valve, general, Jay, Jude, FALSE),
     ViewRow(3, Pump, general, Jude, Jude, FALSE),
     ViewRow(4, Pump, general, Jay, NoString, TRUE),
     ViewRow(5, Valve, other, Jay, NoString, FALSE)}

\* `if x:` for a string or NoString
Truthy(x) == x # NoString /\ x # <<>>

\* a get_filtered_tasks that leaves out " AND completed = 0"
get_filtered_tasks_all_completed(rows, show_completed_arg, category, main_staff, assigned_to) ==
    {r \in rows :
        /\ Truthy(category) => r.category = category
        /\ Truthy(main_staff) => r.main_staff = main_staff
        /\ Truthy(assigned_to) => r.assigned_to = assigned_to}

\* TaskManager.get_filtered_tasks with all its arguments
get_filtered_tasks_where(rows, show_completed_arg, category, main_staff, assigned_to) ==
    {r \in rows :
        /\ ~show_completed_arg => ~r.completed
        /\ Truthy(category) => r.category = category
        /\ Truthy(main_staff) => r.main_staff = main_staff
        /\ Truthy(assigned_to) => r.assigned_to = assigned_to}

\* the search term of _perform_task_refresh: no widget of TaskManagerApp
\* creates search_var, hasattr(self, 'search_var') is false
SqlSearchTerm == <<>>

\* the `or` chain of the search filter over the fields of one task: a field
\* that is NoString has no lower()
RECURSIVE SearchChain(_, _, _)
SearchChain(fields, i, search_term) ==
    IF i > Len(fields) THEN "False"
    ELSE IF fields[i] = NoString THEN "AttributeError"
    ELSE IF In(search_term, Lower(fields[i])) THEN "True"
    ELSE SearchChain(fields, i + 1, search_term)

SearchFields(task) ==
    <<task.title, task.description, task.applied_vessel, task.category,
      task.main_staff, task.assigned_to>>

\* _perform_task_refresh up to the filling of the tree: the item ids shown
ViewRefresh(show_completed_get, category_get, main_staff_get, user_get) ==
    LET category    == IF category_get = All THEN NoString ELSE category_get
        main_staff  == IF main_staff_get = All THEN NoString ELSE main_staff_get
        assigned_to == IF user_get = All THEN NoString ELSE user_get
        search_term == SqlSearchTerm
        filtered_tasks == get_filtered_tasks_where(view_rows, show_completed_get,
                                                   category, main_staff, assigned_to)
        raised == /\ search_term # <<>>
                  /\ \E task \in filtered_tasks :
                         SearchChain(SearchFields(task), 1, search_term) = "AttributeError"
        searched == IF search_term = <<>> THEN filtered_tasks
                    ELSE {task \in filtered_tasks :
                             SearchChain(SearchFields(task), 1, search_term) = "True"}
        filters == [show_completed |-> show_completed_get, category |-> category_get,
                    main_staff |-> main_staff_get, assigned_to |-> user_get]
    IN  /\ view' = IF raised
                   THEN [op |-> "refresh", filters |-> filters, rows |-> {},
                         outcome |-> "AttributeError"]
                   ELSE [op |-> "refresh", filters |-> filters,
                         rows |-> {task.id : task \in searched}, outcome |-> "ok"]
        /\ UNCHANGED <<view_rows, view_tasks>>
        /\ UNCHANGED <<sqlVars, fileVars, notified, threadVars>>

\* a Task of the file-backed manager with the attributes update_task_list
\* looks at
ViewTask(title, priority, completed, category, notes) ==
    [title |-> title, description |-> <<>>, priority |-> priority,
     completed |-> completed, category |-> category, notes |-> notes]

\* the tasks the lists of the projection are made of
TaskPool ==
    <<ViewTask(Pump, "High", FALSE, general, <<>>),
      ViewTask(Valve, "Low", TRUE, <<"g", "e", "n">>, Pump),
      ViewTask(Valve, "High", FALSE, other, <<>>)>>

\* DailyTaskManager.update_task_list: the texts of the tree items, which
\* are the 1-based positions of the tasks shown
update_task_list(task_list, priority_filter, completed_filter, category_entry, search_entry) ==
    LET category_filter == Lower(category_entry)
        search_term     == Lower(search_entry)
        skipped(task) ==
            \/ priority_filter # "All" /\ task.priority # priority_filter
            \/ completed_filter = "Completed" /\ ~task.completed
            \/ completed_filter = "Not Completed" /\ task.completed
            \/ category_filter # <<>> /\ ~In(category_filter, Lower(task.category))
            \/ /\ search_term # <<>>
               /\ ~In(search_term, Lower(task.title))
               /\ ~In(search_term, Lower(task.category))
               /\ ~In(search_term, Lower(task.description))
               /\ ~In(search_term, Lower(task.notes))
    IN  {i \in 1..Len(task_list) : ~skipped(task_list[i])}

\* the filter widgets of the file-backed manager changed, which calls
\* update_task_list
ViewUpdateTaskList(priority_filter, completed_filter, category_entry, search_entry) ==
    /\ view' = [op |-> "update_task_list",
                filters |-> [priority |-> priority_filter, completed |-> completed_filter,
                             category |-> category_entry, search |-> search_entry],
                rows |-> update_task_list(view_tasks, priority_filter, completed_filter,
                                          category_entry, search_entry),
                outcome |-> "ok"]
    /\ UNCHANGED <<view_rows, view_tasks>>
    /\ UNCHANGED <<sqlVars, fileVars, notified, threadVars>>

\* the projections applied to every table and list made of the pools
InitView ==
    /\ InitManagers
    /\ implicitTran
    /\ view_rows \in SUBSET RowPool
    /\ view_tasks \in {SubSeq(TaskPool, i, j) : i \in 1..2, j \in 0..Len(TaskPool)}
    /\ view = NoView
    /\ workers = <<>>
    /\ tree_thread = "none"
    /\ reminder_pc = "loop"

NextView ==
    \/ \E show_completed_get \in BOOLEAN, category_get \in {All, general, other},
          main_staff_get \in {All, Jay}, user_get \in {All, Jude} :
           ViewRefresh(show_completed_get, category_get, main_staff_get, user_get)
    \/ \E priority_filter \in {"All", "High"},
          completed_filter \in {"All", "Completed", "Not Completed"},
          category_entry \in {<<>>, <<"G", "e", "n">>, general},
          search_entry \in {<<>>, <<"p", "u">>} :
           ViewUpdateTaskList(priority_filter, completed_filter, category_entry, search_entry)

SpecView == InitView /\ [][NextView]_vars

(***************************************************************************)
(* Properties of update, restore and id generation in the SQL-backed       *)
(* manager.                                                                *)
(***************************************************************************)
\* the fields of a task dictionary that are not provenance fields
NonProvenance(task) ==
    [id |-> task.id, title |-> task.title, priority |-> task.priority,
     assigned_to |-> task.assigned_to, completed |-> task.completed]

\* the store after update_task(task_id, completed=completed), not rejected
Toggled(st, task_id, completed) ==
    update_task([st EXCEPT !.tc = Stmt(st.tc)], task_id, [completed |-> completed], FALSE)

\* C11: update(id, completed=true) followed by update(id, completed=false)
\* on a pending task marks it completed in between and leaves its
\* non-provenance fields and every other task as they were
C11_ToggleTwiceRestoresFields ==
    \A t \in db :
        ~t.completed
        => LET st1 == Toggled(StoreState, t.id, TRUE)
               st2 == Toggled(st1, t.id, FALSE)
           IN  /\ _find_task_by_id(st1.db, t.id).completed
               /\ NonProvenance(_find_task_by_id(st2.db, t.id))
                      = NonProvenance(_find_task_by_id(db, t.id))
               /\ \A o \in db : o.id # t.id => _find_task_by_id(st2.db, o.id) = RowToDict(o)
               /\ RowIds(st2.db) = RowIds(db)

\* C11 witness: a task was marked completed and then pending again by
\* complete_task while another task stayed completed
C11_MarkedPendingAgain ==
    /\ last.op = "complete"
    /\ last.outcome = "pending"
    /\ last.ids = <<1>>
    /\ \E t \in db : t.id = 1 /\ ~t.completed
    /\ \E o \in db : o.id = 2 /\ o.completed

\* the provenance fields of a task dictionary
Provenance(task) ==
    [created_date |-> task.created_date, created_by |-> task.created_by,
     last_modified |-> task.last_modified, modified_by |-> task.modified_by]

\* C12: an undo that restores a deleted task whose id is free re-inserts it
\* under its id with the created_date, created_by, last_modified and
\* modified_by the snapshot of the deletion holds
C12_RestoreKeepsProvenance ==
    [][(last'.op = "undo" /\ last'.outcome = "restored")
       => \A task \in Range(Last(deleted_tasks_stack).tasks) :
              task.id \notin RowIds(db)
              => /\ task.id \in RowIds(db')
                 /\ Provenance(_find_task_by_id(db', task.id)) = Provenance(task)]_vars

\* the handlers that call update_task for each selected id
UpdateCallers == {"complete", "assign"}

\* C13: toggle-completion or assign on a selection whose ids have left the
\* store ends with a NotFound outcome for the caller and changes no task
C13_UpdateOfMissingIdFails ==
    [][(/\ last'.op \in UpdateCallers
        /\ \A i \in 1..Len(last'.ids) : last'.ids[i] \notin RowIds(db))
       => /\ last'.outcome = "NotFound"
          /\ db' = db]_vars

\* C19: an add that stores a task gives it the id 1 + the largest id among
\* the rows in the table at the time of the add, 1 when the table is empty
C19_AddTakesMaxLiveIdPlusOne ==
    [][(last'.op = "add" /\ last'.outcome = "added")
       => last'.new_id = 1 + Max(RowIds(db) \cup {0})]_vars

\* C20: after a toggle-completion or an assign of tasks that are in the
\* table, each of them has last_modified and modified_by set to the day and
\* the user of the operation
C20_UpdateStampsModification ==
    [][(/\ last'.op \in UpdateCallers
        /\ \A i \in 1..Len(last'.ids) : last'.ids[i] \in RowIds(db))
       => \A i \in 1..Len(last'.ids) :
              LET task == _find_task_by_id(db', last'.ids[i])
              IN  /\ task.last_modified = FormatDateTime(ParseDate(today))
                  /\ task.modified_by = CurrentUser]_vars

(***************************************************************************)
(* Properties of the entry forms.                                          *)
(***************************************************************************)
\* C14: an add with an empty title changes nothing: in the file-backed
\* manager the task list, the task file, the undo stack and the redo stack
\* stay as they are, in the SQL-backed application the table, the cache and
\* the History stay as they are
C14_EmptyTitleAddChangesNothing ==
    [][/\ (\E priority \in PriorityCombo, completed \in BOOLEAN :
               DtmAddTask("", priority, completed))
          => UNCHANGED <<file_tasks, task_file, undo_stack, redo_stack>>
       /\ (\E priority \in Priorities, rejected \in BOOLEAN :
               AppAddTask("", priority, rejected))
          => UNCHANGED <<db, dbCommitted, tasks, deleted_tasks_stack>>]_vars

\* C14 witness: both managers have refused an add with an empty title while
\* holding tasks, and the file-backed one with both stacks non-empty
C14_EmptyTitleRefused ==
    /\ done.op = "add"
    /\ done.outcome = "error"
    /\ file_tasks # <<>>
    /\ undo_stack # <<>>
    /\ redo_stack # <<>>
    /\ last.op = "add"
    /\ last.outcome = "invalid"
    /\ last.title = ""
    /\ db # {}

\* C15: whatever operations have run, no task of the task file and no row
\* of the table has an empty title
C15_NoPersistedEmptyTitle ==
    /\ \A i \in 1..Len(task_file) : task_file[i].title # ""
    /\ \A r \in db \cup dbCommitted : r.title # ""

\* C16: every stored task has a priority that is low, medium or high (in
\* the file-backed manager as the combo box spells it: Low, Medium, High)
C16_PriorityIsLowMediumHigh ==
    /\ \A i \in 1..Len(task_file) :
           PriorityLower(task_file[i].priority) \in {"low", "medium", "high"}
    /\ \A i \in 1..Len(file_tasks) :
           PriorityLower(file_tasks[i].priority) \in {"low", "medium", "high"}
    /\ \A r \in db \cup dbCommitted : r.priority \in {"low", "medium", "high"}

(***************************************************************************)
(* Properties of the view projections.                                     *)
(***************************************************************************)
\* a row passes the filters of the SQL-backed view: completed rows only
\* when show_completed, and each combo box that is not "All" equal to the
\* column
PassesRowFilters(r, filters) ==
    /\ r.completed => filters.show_completed
    /\ filters.category # All => r.category = filters.category
    /\ filters.main_staff # All => r.main_staff = filters.main_staff
    /\ filters.assigned_to # All => r.assigned_to = filters.assigned_to

\* a task passes the priority and completion filters of the file-backed view
PassesListFilters(task, filters) ==
    /\ filters.priority # "All" => task.priority = filters.priority
    /\ filters.completed = "Completed" => task.completed
    /\ filters.completed = "Not Completed" => ~task.completed

\* C17 as stated: the view shows exactly the tasks that pass every active
\* filter, the category filter being an equality and the search term a
\* case-insensitive substring of the title, the description or the category
\* (the file-backed tasks have no staff)
C17_ViewShowsExactlyTheFiltered ==
    /\ view.op = "refresh"
       => view.rows = {r.id : r \in {q \in view_rows : PassesRowFilters(q, view.filters)}}
    /\ view.op = "update_task_list"
       => view.rows =
              {i \in 1..Len(view_tasks) :
                  LET task == view_tasks[i]
                      term == Lower(view.filters.search)
                  IN  /\ PassesListFilters(task, view.filters)
                      /\ view.filters.category # <<>>
                         => Lower(task.category) = Lower(view.filters.category)
                      /\ term # <<>>
                         => \/ In(term, Lower(task.title))
                            \/ In(term, Lower(task.description))
                            \/ In(term, Lower(task.category))}

\* C17 amended: the SQL-backed view shows exactly the rows that pass its
\* four filters; the file-backed view shows exactly the tasks that pass the
\* priority and completion filters, whose category contains the category
\* text and whose title, category, description or notes contain the search
\* term, both without regard to case
C17_ViewShowsTheFiltered ==
    /\ view.op = "refresh"
       => /\ view.outcome = "ok"
          /\ view.rows = {r.id : r \in {q \in view_rows : PassesRowFilters(q, view.filters)}}
    /\ view.op = "update_task_list"
       => view.rows =
              {i \in 1..Len(view_tasks) :
                  LET task == view_tasks[i]
                      term == Lower(view.filters.search)
                  IN  /\ PassesListFilters(task, view.filters)
                      /\ In(Lower(view.filters.category), Lower(task.category))
                      /\ \/ In(term, Lower(task.title))
                         \/ In(term, Lower(task.category))
                         \/ In(term, Lower(task.description))
                         \/ In(term, Lower(task.notes))}

\* C17 witness: of five rows, three general and pending, one general and
\* completed, one other and pending, the view with category general and
\* without the completed ones shows the three
C17_ThreeOfFiveShown ==
    /\ view.op = "refresh"
    /\ view_rows = RowPool
    /\ view.filters = [show_completed |-> FALSE, category |-> general,
                       main_staff |-> All, assigned_to |-> All]
    /\ view.rows = {1, 2, 3}

(***************************************************************************)
(* Properties of the transactions, the refresh and the cache.              *)
(***************************************************************************)
\* C21: every BEGIN TRANSACTION of delete and of undo is closed by one
\* commit or rollback before the handler returns, on every path: the
\* handler leaves no transaction of its own open, and no COMMIT or ROLLBACK
\* TRANSACTION is issued (and raises) with no transaction open
C21_TransactionClosedOnReturn ==
    [][(last'.op \in {"delete", "undo"})
       => (/\ trancount' <= Stmt(trancount)
           /\ last'.outcome \notin {"raised", "failed_raised",
                                    "rejected_raised"})]_vars

(***************************************************************************)
(* The refresh of the task tree, thread by thread.  refresh_task_list      *)
(* starts a thread whose target runs _perform_task_refresh; the steps of   *)
(* that thread interleave with the UI thread and with one another.         *)
(***************************************************************************)
\* refresh threads followed at once
MaxWorkers == 2

\* the table the application is started on
StoredRows == {AddTaskRow(1, "pump", "low", 1),
               [AddTaskRow(2, "pump", "high", 1) EXCEPT !.completed = TRUE]}

\* a refresh thread about to run its target
NewWorker == [pc |-> "reload", todo |-> <<>>]

\* threading.Thread(target=self._perform_task_refresh_threaded).start()
StartRefreshThread == workers' = Append(workers, NewWorker)

\* the sequence without its element i
RemoveAt(seq, i) == SubSeq(seq, 1, i - 1) \o SubSeq(seq, i + 1, Len(seq))

\* the "Show Completed Tasks" box is clicked: its command is refresh_task_list
ClickShowCompleted ==
    /\ Len(workers) < MaxWorkers
    /\ show_completed' = ~show_completed
    /\ StartRefreshThread
    /\ last' = Did("show_completed", <<>>, 0, "", "", "toggled")
    /\ UNCHANGED <<db, dbCommitted, trancount, implicitTran, tasks, tree,
                   deleted_tasks_stack, undo_btn, refreshThreads, today>>
    /\ UNCHANGED <<tree_thread, reminder_pc>>
    /\ UNCHANGED <<fileVars, notified, viewVars>>

\* what a step of a refresh thread leaves alone
WorkerFrame ==
    /\ UNCHANGED <<db, dbCommitted, implicitTran, show_completed,
                   deleted_tasks_stack, undo_btn, refreshThreads, today, last>>
    /\ UNCHANGED <<reminder_pc, fileVars, notified, viewVars>>

\* tasks = self.task_manager.reload_tasks()
WorkerReload(i) ==
    /\ workers[i].pc = "reload"
    /\ tasks' = _load_tasks(db)
    /\ trancount' = Stmt(trancount)
    /\ workers' = [workers EXCEPT ![i].pc = "clear"]
    /\ UNCHANGED <<tree, tree_thread>>
    /\ WorkerFrame

\* for item in self.task_tree.get_children(): self.task_tree.delete(item)
WorkerClear(i) ==
    /\ workers[i].pc = "clear"
    /\ tree' = {}
    /\ tree_thread' = "worker"
    /\ workers' = [workers EXCEPT ![i].pc = "filter"]
    /\ UNCHANGED <<tasks, trancount>>
    /\ WorkerFrame

\* filtered_tasks = self.task_manager.get_filtered_tasks(show_completed, ...)
WorkerFilter(i) ==
    /\ workers[i].pc = "filter"
    /\ workers' = [workers EXCEPT
                     ![i].pc = "insert",
                     ![i].todo = SortedSeq({t.id : t \in get_filtered_tasks(
                                                db, show_completed)})]
    /\ trancount' = Stmt(trancount)
    /\ UNCHANGED <<tasks, tree, tree_thread>>
    /\ WorkerFrame

\* self.task_tree.insert("", tk.END, ..., iid=str(task["id"])) for the next
\* task: an iid the tree already holds raises TclError, which ends the loop
WorkerInsert(i) ==
    /\ workers[i].pc = "insert"
    /\ workers[i].todo # <<>>
    /\ IF Head(workers[i].todo) \in tree
       THEN /\ workers' = [workers EXCEPT ![i].pc = "return"]
            /\ UNCHANGED <<tree, tree_thread>>
       ELSE /\ tree' = tree \cup {Head(workers[i].todo)}
            /\ tree_thread' = "worker"
            /\ workers' = [workers EXCEPT ![i].todo = Tail(workers[i].todo)]
    /\ UNCHANGED <<tasks, trancount>>
    /\ WorkerFrame

\* the loop is over: the thread posts hide_loading_indicator and
\* update_status to the UI thread with root.after and ends
WorkerReturn(i) ==
    /\ \/ workers[i].pc = "return"
       \/ workers[i].pc = "insert" /\ workers[i].todo = <<>>
    /\ workers' = RemoveAt(workers, i)
    /\ UNCHANGED <<tasks, trancount, tree, tree_thread>>
    /\ WorkerFrame

\* the application started on a table that holds tasks: __init__ has loaded
\* the cache and has called refresh_task_list once
InitRefresh ==
    /\ implicitTran \in BOOLEAN
    /\ db \in SUBSET StoredRows
    /\ dbCommitted = db
    /\ trancount = Stmt(0)
    /\ tasks = _load_tasks(db)
    /\ tree = {}
    /\ show_completed = FALSE
    /\ deleted_tasks_stack = <<>>
    /\ undo_btn = "disabled"
    /\ refreshThreads = 0
    /\ today = 1
    /\ last = Did("init", <<>>, 0, "", "", "started")
    /\ file_tasks = <<>>
    /\ undo_stack = <<>>
    /\ redo_stack = <<>>
    /\ aliased = 0
    /\ task_file = <<>>
    /\ done = [op |-> "init", outcome |-> "ok", redo_before |-> 0]
    /\ notified = <<>>
    /\ view_rows = {}
    /\ view_tasks = <<>>
    /\ view = NoView
    /\ workers = <<NewWorker>>
    /\ tree_thread = "none"
    /\ reminder_pc = "loop"

NextRefresh ==
    \/ ClickShowCompleted
    \/ \E i \in 1..Len(workers) : WorkerReload(i)
    \/ \E i \in 1..Len(workers) : WorkerClear(i)
    \/ \E i \in 1..Len(workers) : WorkerFilter(i)
    \/ \E i \in 1..Len(workers) : WorkerInsert(i)
    \/ \E i \in 1..Len(workers) : WorkerReturn(i)

SpecRefresh == InitRefresh /\ [][NextRefresh]_vars

\* C22: at most one refresh of the task list is in flight at any time
C22_OneRefreshInFlight == Len(workers) <= 1

\* C23: the rows of the task tree are cleared and inserted only on the UI
\* thread, never by the refresh worker thread
C23_TreeChangedOnUiThread ==
    [][(tree' # tree) => (tree_thread' = "ui")]_vars

\* C24: after every successful mutating store call (insert, update, delete,
\* batch delete) the in-memory task set that the next read uses equals the
\* content of the store
C24_CacheEqualsStore ==
    (/\ last.op \in {"add", "complete", "delete", "undo"}
     /\ last.outcome \in {"added", "completed", "pending", "deleted", "restored"})
    => tasks = _load_tasks(db)

(***************************************************************************)
(* The sorting of the projected tasks (apply_sorting, sort column          *)
(* "status").  A due date is the text of the task dictionary: none, a      *)
(* text that is no date, or the text of the calendar day `day`.            *)
(***************************************************************************)
\* tasks in a list handed to apply_sorting
MaxSort == 3

NoDueDate == [text |-> "none", day |-> 0]
BadDueDate == [text |-> "bad", day |-> 0]
DueOn(day) == [text |-> "date", day |-> day]

\* days from today to the due dates of the lists
DueOffsets == {0 - 1001, 0 - 2, 0, 3}

\* the task dictionaries of the lists, at calendar day `day`
SortPool(day) ==
    {[completed |-> TRUE, due_date |-> DueOn(day)],
     [completed |-> FALSE, due_date |-> NoDueDate],
     [completed |-> FALSE, due_date |-> BadDueDate]}
    \cup {[completed |-> FALSE, due_date |-> DueOn(day + d)] : d \in DueOffsets}

\* the decimal digits of n >= 0, as str(n) gives them
RECURSIVE Digits(_)
Digits(n) == IF n < 10 THEN <<n>> ELSE Digits(n \div 10) \o <<n % 10>>

\* f"{n:04d}": the digits of n, padded with zeros on the left to 4 characters
Format04d(n) ==
    LET d == Digits(n)
    IN  IF Len(d) >= 4 THEN d ELSE [i \in 1..(4 - Len(d)) |-> 0] \o d

\* Python's < on two strings of digits: character by character, a proper
\* prefix being the smaller
RECURSIVE StrLess(_, _)
StrLess(a, b) ==
    IF b = <<>> THEN FALSE
    ELSE IF a = <<>> THEN TRUE
    ELSE IF Head(a) # Head(b) THEN Head(a) < Head(b)
    ELSE StrLess(Tail(a), Tail(b))

\* apply_sorting.status_key
status_key(task, day) ==
    IF task.completed THEN <<2, <<>>>>
    ELSE IF task.due_date.text = "none" THEN <<1, <<>>>>
    ELSE IF task.due_date.text = "bad" THEN <<1, <<>>>>
    ELSE LET days_until_due == task.due_date.day - day
         IN  IF days_until_due < 0
             THEN <<0, Format04d(0 - days_until_due)>>
             ELSE <<0, Format04d(days_until_due + 10000)>>

\* Python's < on two (int, str) tuples
KeyLess(k1, k2) ==
    \/ k1[1] < k2[1]
    \/ k1[1] = k2[1] /\ StrLess(k1[2], k2[2])

\* list.sort(key=status_key, reverse=...): a stable sort, also when reversed
RECURSIVE SortStatus(_, _, _)
SortStatus(task_list, day, reverse) ==
    IF task_list = <<>> THEN <<>>
    ELSE LET s == SortStatus(Front(task_list), day, reverse)
             x == Last(task_list)
             After(y) == IF reverse
                         THEN KeyLess(status_key(y, day), status_key(x, day))
                         ELSE KeyLess(status_key(x, day), status_key(y, day))
             Before(y) == ~After(y)
         IN  SelectSeq(s, Before) \o <<x>> \o SelectSeq(s, After)

\* apply_sorting with self.sort_column == "status"
apply_sorting(task_list, day, sort_reverse) == SortStatus(task_list, day, sort_reverse)

\* the lists handed to apply_sorting
SortInputs(day) ==
    UNION {[1..n -> SortPool(day)] : n \in 1..MaxSort}

\* _perform_task_refresh sorts the filtered tasks by the status column
ViewSort(task_list, sort_reverse) ==
    /\ view' = [op |-> "sort",
                filters |-> [sort_column |-> "status", sort_reverse |-> sort_reverse,
                             tasks |-> task_list],
                rows |-> apply_sorting(task_list, today, sort_reverse),
                outcome |-> "ok"]
    /\ UNCHANGED <<view_rows, view_tasks>>
    /\ UNCHANGED <<sqlVars, fileVars, notified, threadVars>>

NextSort ==
    \E task_list \in SortInputs(today), sort_reverse \in BOOLEAN :
        ViewSort(task_list, sort_reverse)

SpecSort == InitFile /\ [][NextSort]_vars

\* the place the statement gives a task: overdue pending, pending with days
\* remaining, pending with no or an invalid due date, completed
StatusRank(task) ==
    IF task.completed THEN 3
    ELSE IF task.due_date.text # "date" THEN 2
    ELSE IF task.due_date.day < today THEN 0 ELSE 1

\* C25: sorted by the status column in ascending direction, the overdue
\* pending tasks come first, then the pending tasks by ascending number of
\* days remaining, then the pending tasks with no or an invalid due date,
\* then the completed tasks
C25_StatusAscendingOrder ==
    (view.op = "sort" /\ ~view.filters.sort_reverse)
    => \A i, j \in 1..Len(view.rows) :
          i < j =>
             /\ StatusRank(view.rows[i]) <= StatusRank(view.rows[j])
             /\ (StatusRank(view.rows[i]) = 1 /\ StatusRank(view.rows[j]) = 1)
                => view.rows[i].due_date.day <= view.rows[j].due_date.day

(***************************************************************************)
(* The reminder thread of the file-backed manager, statement by statement. *)
(* check_reminders runs in a daemon thread started by __init__; it takes   *)
(* no lock, so the handlers of the UI thread run between its statements.   *)
(***************************************************************************)
\* the position in the list of the first task that holds a due reminder
\* (0: there is none)
FirstDue(task_list, now) ==
    LET S == {i \in 1..Len(task_list) : Due(task_list[i].reminders, now) # <<>>}
    IN  IF S = {} THEN 0 ELSE Min(S)

\* the list of reminders without the first occurrence of `reminder`
RECURSIVE ListRemove(_, _)
ListRemove(reminders, reminder) ==
    IF reminders = <<>> THEN <<>>
    ELSE IF Head(reminders) = reminder THEN Tail(reminders)
    ELSE <<Head(reminders)>> \o ListRemove(Tail(reminders), reminder)

\* check_reminders finds a due reminder: show_reminder_notification(task),
\* then task.reminders.remove(reminder)
ReminderRemove ==
    LET i == FirstDue(file_tasks, Now)
        task == file_tasks[i]
        reminder == Head(Due(task.reminders, Now))
        removed == [task EXCEPT !.reminders = ListRemove(task.reminders, reminder)]
        m == InPlace(Dtm, SetAt(file_tasks, i - 1, removed))
    IN  /\ reminder_pc = "loop"
        /\ i # 0
        /\ notified' = Append(notified, [title |-> task.title, reminder |-> reminder])
        /\ SetDtm(m)
        /\ reminder_pc' = "save"
        /\ done' = Ran("check_reminders", "removed")
        /\ UNCHANGED <<sqlVars, viewVars, workers, tree_thread>>

\* the statement after the removal: self.save_tasks()
ReminderSave ==
    /\ reminder_pc = "save"
    /\ SetDtm(save_tasks(Dtm))
    /\ reminder_pc' = "loop"
    /\ done' = Ran("check_reminders", "saved")
    /\ UNCHANGED <<sqlVars, notified, viewVars, workers, tree_thread>>

\* the handlers of the UI thread that change the tasks and write the file
UiHandlers == {"add", "edit", "delete", "undo", "redo"}

\* the file-backed manager with the UI thread and the reminder thread
\* interleaved
NextRace ==
    \/ /\ Len(file_tasks) < MaxTasks
       /\ Len(undo_stack) < MaxActions
       /\ DtmAddTask("a", "High", FALSE)
    \/ \E index \in Rows, completed \in BOOLEAN :
           /\ Len(undo_stack) < MaxActions
           /\ DtmEditTask(index, "a", "High", completed)
    \/ \E selection \in (SUBSET Rows) \ {{}} :
           /\ Len(undo_stack) + Cardinality(selection) <= MaxActions
           /\ DtmDeleteTask(selection)
    \/ \E index \in Rows, day \in 1..MaxDay :
           /\ NoReminderYet
           /\ reminder_pc = "loop"
           /\ DtmAddReminder(index, [day |-> day, sec |-> 0])
    \/ /\ Len(notified) < MaxNotified
       /\ ReminderRemove
    \/ ReminderSave
    \/ Tick
    \/ /\ undo_stack # <<>> => Len(undo(Dtm).m.tasks) <= MaxTasks
       /\ DtmUndo
    \/ /\ redo_stack # <<>> => Len(redo(Dtm).m.tasks) <= MaxTasks
       /\ DtmRedo

SpecRace == InitFile /\ [][NextRace]_vars

\* C26: the task set is changed and the task file is written by one thread
\* at a time: the UI thread runs add, edit, delete, undo or redo only while
\* the reminder thread is not between its change of the tasks and its save
C26_OneThreadAtATime ==
    [][(/\ done'.op \in UiHandlers
        /\ <<file_tasks, task_file>>' # <<file_tasks, task_file>>)
       => reminder_pc = "loop"]_vars

(***************************************************************************)
(* The undo History followed to its depth of max_undo_stack_size: the      *)
(* SQL-backed application with add, delete and the refresh, one task in    *)
(* the table at a time.                                                    *)
(***************************************************************************)
NextHistory ==
    \/ /\ db = {}
       /\ AppAddTask("pump", "low", FALSE)
    \/ \E task_ids \in Selections : \E rej \in SUBSET Range(task_ids) :
           /\ trancount < MaxTran
           /\ AppDeleteTask(task_ids, rej)
    \/ PerformTaskRefresh

SpecHistory == Init /\ [][NextHistory]_vars

\* C27: a delete that fails leaves the undo History exactly as it was
\* before the call, also when it already held max_undo_stack_size entries:
\* no entry is added and none is removed or evicted
C27_FailedDeleteKeepsHistory ==
    [][(/\ last'.op = "delete"
        /\ last'.outcome \in {"failed", "failed_raised"})
       => deleted_tasks_stack' = deleted_tasks_stack]_vars

\* C28: an undo of a delete changes only the tasks of the undone deletion
\* record: every task that is in the store before the undo and is not a
\* task that record deleted (such as a task created by add after the
\* delete) is in the store with the same field values after the undo
C28_UndoKeepsOtherTasks ==
    [][(/\ last'.op = "undo"
        /\ deleted_tasks_stack # <<>>)
       => \A r \in db :
             RowToDict(r) \notin Range(Last(deleted_tasks_stack).tasks)
             => r \in db']_vars

(***************************************************************************)
(* The file-backed manager with the handlers that record no Action         *)
(* (import_tasks, add_reminder) next to add, edit, undo and redo.          *)
(***************************************************************************)
NextFrame ==
    \/ /\ Len(file_tasks) < MaxTasks
       /\ Len(undo_stack) < MaxActions
       /\ DtmAddTask("a", "High", FALSE)
    \/ \E index \in Rows, completed \in BOOLEAN :
           /\ Len(undo_stack) < MaxActions
           /\ DtmEditTask(index, "a", "High", completed)
    \/ /\ Len(file_tasks) + Len(ImportFile) <= MaxTasks
       /\ DtmImportTasks(ImportFile)
    \/ \E index \in Rows, day \in 1..MaxDay :
           /\ NoReminderYet
           /\ DtmAddReminder(index, [day |-> day, sec |-> 0])
    \/ /\ undo_stack # <<>> => Len(undo(Dtm).m.tasks) <= MaxTasks
       /\ DtmUndo
    \/ /\ redo_stack # <<>> => Len(redo(Dtm).m.tasks) <= MaxTasks
       /\ DtmRedo

SpecFrame == InitFile /\ [][NextFrame]_vars

\* the reminders attached to the tasks of a list, the task at position
\* `except` left out
AttachedReminders(task_list, except) ==
    UNION {Range(task_list[i].reminders) : i \in (1..Len(task_list)) \ {except}}

\* C29: undo reverts only the undone Action: the imported tasks are in the
\* list unchanged after it, the reminders set by add_reminder are still
\* attached after it, and the undo of an add removes the task that add
\* created
C29_UndoRevertsOnlyItsAction ==
    [][(done'.op = "undo" /\ undo_stack # <<>>)
       => LET action  == Last(undo_stack)
              index   == action.task_index
              removed == IF action.action_type = "add" THEN index + 1 ELSE 0
          IN  /\ \A task \in Range(file_tasks) :
                     task.title = "i" => task \in Range(file_tasks')
              /\ AttachedReminders(file_tasks, removed)
                     \subseteq AttachedReminders(file_tasks', 0)
              /\ (action.action_type = "add" /\ index < Len(file_tasks))
                 => file_tasks[index + 1].title = action.new_state.title]_vars

(***************************************************************************)
(* The polling loop of the reminder thread under fair scheduling: the      *)
(* loop of check_reminders makes a pass every 60 seconds for as long as    *)
(* the application runs, so a pass that has a due reminder to show is      *)
(* eventually made.                                                        *)
(***************************************************************************)
NextPolling ==
    \/ /\ Len(file_tasks) < MaxTasks
       /\ Len(undo_stack) < MaxActions
       /\ DtmAddTask("a", "High", FALSE)
    \/ \E index \in Rows, completed \in BOOLEAN :
           /\ Len(undo_stack) < MaxActions
           /\ DtmEditTask(index, "a", "High", completed)
    \/ \E selection \in (SUBSET Rows) \ {{}} :
           /\ Len(undo_stack) + Cardinality(selection) <= MaxActions
           /\ DtmDeleteTask(selection)
    \/ \E index \in Rows, day \in 1..MaxDay :
           /\ NoReminderYet
           /\ DtmAddReminder(index, [day |-> day, sec |-> 0])
    \/ CheckReminders
    \/ Tick
    \/ /\ Len(notified) < MaxNotified
       /\ undo_stack # <<>> => Len(undo(Dtm).m.tasks) <= MaxTasks
       /\ DtmUndo
    \/ /\ Len(notified) < MaxNotified
       /\ redo_stack # <<>> => Len(redo(Dtm).m.tasks) <= MaxTasks
       /\ DtmRedo

SpecPolling == InitFile /\ [][NextPolling]_vars /\ WF_vars(CheckReminders)

\* the reminder times the dialog of add_reminder is answered with
ReminderTimes == {[day |-> day, sec |-> 0] : day \in 1..MaxDay}

\* the reminder is attached to a task of the current task list
Attached(reminder) == reminder \in AttachedReminders(file_tasks, 0)

\* a notification of the reminder was shown
Shown(reminder) == \E k \in 1..Len(notified) : notified[k].reminder = reminder

\* the time of the reminder has passed
TimePassed(reminder) ==
    reminder.day < today \/ (reminder.day = today /\ reminder.sec <= 0)

\* C30: under fair scheduling of the polling loop, a reminder attached to a
\* task of the current list whose time has passed is eventually notified
\* and removed, unless a handler of the UI thread detaches it first
C30_DueReminderEventuallyNotified ==
    \A reminder \in ReminderTimes :
        (Attached(reminder) /\ TimePassed(reminder))
        ~> (/\ ~Attached(reminder)
            /\ Shown(reminder) \/ done.op # "check_reminders")

\* C30 witness: the polling loop has shown the reminder of day 2 and has
\* removed it from its task, which is still in the list
C30_NotifiedAndRemoved ==
    /\ done.op = "check_reminders"
    /\ Shown([day |-> 2, sec |-> 0])
    /\ ~Attached([day |-> 2, sec |-> 0])
    /\ file_tasks # <<>>

====
